---------------------------- MODULE Spec2Model ----------------------------
(***************************************************************************)
(* Model of the UCB binary trace parsers.                                  *)
(*                                                                         *)
(*   src/ucb_trace_parser_new.py  decode, sort by client, group (SST       *)
(*                                method), write                           *)
(*   src/ucb_trace_parser.py      decode, group (timeout method), write     *)
(*                                                                         *)
(* The input file is a sequence of bytes.  Python lists hold references to *)
(* request dicts: `heap` maps a reference to the dict, and `requests`,     *)
(* `current_page`, `pages`, `valid_pages` hold references, so that the      *)
(* in-place promotion page[0]['is_primary'] = True is seen through every   *)
(* list that holds the request.                                            *)
(***************************************************************************)
EXTENDS Integers, Sequences, FiniteSets, TLC

VARIABLES
    parser,             \* "new": ucb_trace_parser_new.py, "old": ucb_trace_parser.py
    stream,             \* the bytes of trace_file
    records,            \* the well-formed records the file starts with (environment)
    tail,               \* how the file ends after them (environment)
    pos,                \* file position of f
    record_id,
    requests,
    heap,               \* reference -> request dict
    snapshot,           \* heap as it was when grouping was entered
    log,                \* what print() has written
    stop_reason,        \* which branch left the decode loop
    pc,                 \* position in parse_binary_trace
    pages,
    current_page,
    current_client_ip,
    gi,                 \* index of the grouping loop
    valid_pages,
    vi,                 \* index of the post-processing loop
    output,             \* lines of output_file
    result              \* <<v>> once parse_binary_trace has returned v

vars == <<parser, stream, records, tail, pos, record_id, requests, heap, snapshot,
          log, stop_reason, pc, pages, current_page, current_client_ip, gi,
          valid_pages, vi, output, result>>

---------------------------------------------------------------------------
(* Bounds of the model *)

MaxRecords == 3         \* well-formed records in a trace file
MaxGroupInput == 4      \* requests handed directly to the grouper
MaxUrlTokens == 2       \* pieces the URL of a classified record is made of

---------------------------------------------------------------------------
(* Program constants *)

HEADER_SIZE == 60
PAGE_TIMEOUT == 10
None == -1               \* current_client_ip = None: no client_ip equals it
REPLACEMENT == 65533    \* U+FFFD, what errors='replace' puts for an invalid byte

---------------------------------------------------------------------------
(* Sequences *)

Min(a, b) == IF a < b THEN a ELSE b
Max_NoFloor(a, b) == b
Max(a, b) == IF a > b THEN a ELSE b

\* s[a:b] of Python, 0-based, end exclusive, clipped to the sequence
Slice(s, a, b) == SubSeq(s, a + 1, Min(b, Len(s)))

\* f.read(n) at file position p: the next n bytes, fewer at end of file
Read(s, p, n) == Slice(s, p, p + n)

\* sub in s, for Python strings
Contains(s, sub) ==
    \E i \in 0..(Len(s) - Len(sub)) : SubSeq(s, i + 1, i + Len(sub)) = sub

RECURSIVE Concat(_)
Concat(ss) == IF ss = <<>> THEN <<>> ELSE Head(ss) \o Concat(Tail(ss))

RECURSIVE SumLen(_)
SumLen(ss) == IF ss = <<>> THEN 0 ELSE Len(Head(ss)) + SumLen(Tail(ss))

---------------------------------------------------------------------------
(* struct.unpack, big-endian *)

\* struct.unpack('>I', b)[0]
UnpackI(b) == b[1] * 16777216 + b[2] * 65536 + b[3] * 256 + b[4]

\* struct.unpack('>H', b)[0]
UnpackH(b) == b[1] * 256 + b[2]

\* The fields of one 60-byte header
UnpackHeader(h) ==
    [ client_req_sec       |-> UnpackI(Slice(h, 0, 4)),
      client_req_usec      |-> UnpackI(Slice(h, 4, 8)),
      server_first_sec     |-> UnpackI(Slice(h, 8, 12)),
      server_first_usec    |-> UnpackI(Slice(h, 12, 16)),
      server_last_sec      |-> UnpackI(Slice(h, 16, 20)),
      server_last_usec     |-> UnpackI(Slice(h, 20, 24)),
      client_ip            |-> UnpackI(Slice(h, 24, 28)),
      client_port          |-> UnpackH(Slice(h, 28, 30)),
      server_ip            |-> UnpackI(Slice(h, 30, 34)),
      server_port          |-> UnpackH(Slice(h, 34, 36)),
      client_pragma        |-> h[37],
      server_pragma        |-> h[38],
      client_if_mod_since  |-> UnpackI(Slice(h, 38, 42)),
      server_expires       |-> UnpackI(Slice(h, 42, 46)),
      server_last_modified |-> UnpackI(Slice(h, 46, 50)),
      resp_header_len      |-> UnpackI(Slice(h, 50, 54)),
      resp_data_len        |-> UnpackI(Slice(h, 54, 58)),
      url_len              |-> UnpackH(Slice(h, 58, 60)) ]

\* url_data.decode('utf-8', errors='replace') on bytes that form no multi-byte
\* sequence: an ASCII byte is its own character, any other byte is replaced
DecodeUtf8(bytes) ==
    [i \in 1..Len(bytes) |-> IF bytes[i] < 128 THEN bytes[i] ELSE REPLACEMENT]

---------------------------------------------------------------------------
(* The classifiers *)

\* str.lower() on the characters A-Z
Lower(url) ==
    [i \in 1..Len(url) |-> IF url[i] >= 65 /\ url[i] <= 90 THEN url[i] + 32 ELSE url[i]]

secondary_extensions_NoCss ==
    << <<46, 103, 105, 102>>, <<46, 106, 112, 103>>, <<46, 106, 112, 101, 103>>,
       <<46, 112, 110, 103>>, <<46, 106, 115>>, <<46, 106, 115>>,
       <<46, 105, 99, 111>>, <<46, 98, 109, 112>> >>

\* '.gif', '.jpg', '.jpeg', '.png', '.css', '.js', '.ico', '.bmp'
secondary_extensions ==
    << <<46, 103, 105, 102>>, <<46, 106, 112, 103>>, <<46, 106, 112, 101, 103>>,
       <<46, 112, 110, 103>>, <<46, 99, 115, 115>>, <<46, 106, 115>>,
       <<46, 105, 99, 111>>, <<46, 98, 109, 112>> >>

\* '.html', '.htm'
primary_extensions == << <<46, 104, 116, 109, 108>>, <<46, 104, 116, 109>> >>

\* url.split('/')[-1]: what follows the last '/'
RECURSIVE LastSegment(_)
LastSegment(url) ==
    IF url = <<>> THEN <<>>
    ELSE IF url[Len(url)] = 47 THEN <<>>
    ELSE LastSegment(SubSeq(url, 1, Len(url) - 1)) \o <<url[Len(url)]>>

is_primary_request_HtmlFirst(url) ==
    LET url_lower == Lower(url) IN
    IF \E k \in 1..Len(secondary_extensions) : Contains(url_lower, secondary_extensions[k])
        THEN FALSE
    ELSE IF \E k \in 1..Len(primary_extensions) : Contains(url_lower, primary_extensions[k])
        THEN TRUE
    ELSE IF Contains(url, <<46, 99>>) /\ ~Contains(url_lower, <<46, 99, 115, 115>>)
        THEN FALSE
    ELSE TRUE

\* is_primary_request of ucb_trace_parser_new.py
is_primary_request(url) ==
    LET url_lower == Lower(url) IN
    IF \E k \in 1..Len(secondary_extensions) : Contains(url_lower, secondary_extensions[k])
        THEN FALSE
    ELSE IF Contains(url, <<46, 99>>) /\ ~Contains(url_lower, <<46, 99, 115, 115>>)
        THEN FALSE
    ELSE IF \E k \in 1..Len(primary_extensions) : Contains(url_lower, primary_extensions[k])
        THEN TRUE
    ELSE IF ~Contains(LastSegment(url), <<46>>)
        THEN TRUE
    ELSE TRUE

\* is_primary_request of ucb_trace_parser.py
is_primary_request_old(url) ==
    IF \E k \in {1, 2, 3, 4, 5, 6} : Contains(url, secondary_extensions[k])
        THEN FALSE
    ELSE IF Contains(url, <<46, 99>>) /\ ~Contains(url, <<46, 99, 115, 115>>)
        THEN FALSE
    ELSE TRUE

---------------------------------------------------------------------------
(* The request dict built from one record *)

MakeRequest(p, id, h, url) ==
    IF p = "new" THEN
        [ id               |-> id,
          url              |-> url,
          client_ip        |-> h.client_ip,
          client_req_time  |-> h.client_req_sec,
          server_first_time|-> h.server_first_sec,
          server_last_time |-> h.server_last_sec,
          resp_header_len  |-> h.resp_header_len,
          resp_data_len    |-> h.resp_data_len,
          size             |-> h.resp_header_len + h.resp_data_len,
          is_primary       |-> is_primary_request(url),
          response_time    |-> Max(1, h.server_last_sec - h.server_first_sec) ]
    ELSE
        [ id               |-> id,
          url              |-> url,
          client_req_time  |-> h.client_req_sec,
          server_first_time|-> h.server_first_sec,
          server_last_time |-> h.server_last_sec,
          resp_header_len  |-> h.resp_header_len,
          resp_data_len    |-> h.resp_data_len,
          size             |-> h.resp_header_len + h.resp_data_len,
          is_primary       |-> is_primary_request_old(url),
          response_time    |-> Max(1, h.server_last_sec - h.server_first_sec) ]

---------------------------------------------------------------------------
(* The trace file: concatenated records in the layout UnpackHeader reads *)

PackI(v) == <<(v \div 16777216) % 256, (v \div 65536) % 256, (v \div 256) % 256, v % 256>>
PackH(v) == <<(v \div 256) % 256, v % 256>>

\* One record: the 60-byte header, then the URL bytes
EncodeRecord(r) ==
    PackI(r.client_req_sec) \o PackI(0) \o
    PackI(r.server_first_sec) \o PackI(0) \o
    PackI(r.server_last_sec) \o PackI(0) \o
    PackI(r.client_ip) \o PackH(r.client_port) \o
    PackI(r.server_ip) \o PackH(80) \o
    <<0>> \o <<0>> \o
    PackI(0) \o PackI(0) \o PackI(0) \o
    PackI(r.resp_header_len) \o PackI(r.resp_data_len) \o
    PackH(Len(r.url)) \o r.url

RECURSIVE EncodeAll(_)
EncodeAll(rs) == IF rs = <<>> THEN <<>> ELSE EncodeRecord(Head(rs)) \o EncodeAll(Tail(rs))

\* The records a trace is made of: two clients, a primary and a secondary
\* URL for each ("/", "a.gif", "i.htm", "s.js").  Every byte of a file is
\* below 128, so that a 32-bit field read at any offset is below 2^31.
RecordChoices ==
    { [ client_req_sec |-> 10, server_first_sec |-> 10, server_last_sec |-> 10,
        client_ip |-> 256, client_port |-> 1025, server_ip |-> 3,
        resp_header_len |-> 100, resp_data_len |-> 70000, url |-> <<47>> ],
      [ client_req_sec |-> 25, server_first_sec |-> 26, server_last_sec |-> 29,
        client_ip |-> 256, client_port |-> 1026, server_ip |-> 3,
        resp_header_len |-> 90, resp_data_len |-> 300,
        url |-> <<97, 46, 103, 105, 102>> ],
      [ client_req_sec |-> 12, server_first_sec |-> 20, server_last_sec |-> 19,
        client_ip |-> 2, client_port |-> 1027, server_ip |-> 4,
        resp_header_len |-> 0, resp_data_len |-> 5,
        url |-> <<105, 46, 104, 116, 109>> ],
      [ client_req_sec |-> 13, server_first_sec |-> 5, server_last_sec |-> 6,
        client_ip |-> 2, client_port |-> 1028, server_ip |-> 4,
        resp_header_len |-> 1, resp_data_len |-> 0,
        url |-> <<115, 46, 106, 115>> ] }

RECURSIVE SeqsUpTo(_, _)
SeqsUpTo(S, n) ==
    IF n = 0 THEN {<<>>}
    ELSE LET shorter == SeqsUpTo(S, n - 1) IN
         shorter \cup {Append(s, x) : s \in {t \in shorter : Len(t) = n - 1}, x \in S}

\* How a file ends after its well-formed records
Tails == {"clean", "header_1", "header_59", "url_short", "url_missing"}

TailRecord == CHOOSE r \in RecordChoices : r.url = <<97, 46, 103, 105, 102>>

TailBytes(t) ==
    CASE t = "clean"       -> <<>>
      [] t = "header_1"    -> SubSeq(EncodeRecord(TailRecord), 1, 1)
      [] t = "header_59"   -> SubSeq(EncodeRecord(TailRecord), 1, HEADER_SIZE - 1)
      [] t = "url_short"   -> SubSeq(EncodeRecord(TailRecord), 1,
                                     Len(EncodeRecord(TailRecord)) - 1)
      [] t = "url_missing" -> SubSeq(EncodeRecord(TailRecord), 1, HEADER_SIZE)

---------------------------------------------------------------------------
(* Initial states *)

\* Before parse_binary_trace is called
Init ==
    /\ parser = "none"
    /\ records = <<>>
    /\ tail = "none"
    /\ stream = <<>>
    /\ pos = 0
    /\ record_id = 0
    /\ requests = <<>>
    /\ heap = <<>>
    /\ snapshot = <<>>
    /\ log = <<>>
    /\ stop_reason = "none"
    /\ pc = "call"
    /\ pages = <<>>
    /\ current_page = <<>>
    /\ current_client_ip = None
    /\ gi = 1
    /\ valid_pages = <<>>
    /\ vi = 1
    /\ output = <<>>
    /\ result = <<>>

\* parse_binary_trace(trace_file, output_file) of either parser is called on a
\* non-empty file (main refuses an empty one): requests = [], the file is
\* opened, record_id = 0
Open ==
    /\ pc = "call"
    /\ parser' \in {"new", "old"}
    /\ records' \in SeqsUpTo(RecordChoices, MaxRecords)
    /\ tail' \in Tails
    /\ stream' = EncodeAll(records') \o TailBytes(tail')
    /\ stream' # <<>>
    /\ pos' = 0
    /\ record_id' = 0
    /\ requests' = <<>>
    /\ pc' = "decode"
    /\ UNCHANGED <<heap, snapshot, log, stop_reason, pages, current_page,
                   current_client_ip, gi, valid_pages, vi, output, result>>

---------------------------------------------------------------------------
(* The decode loop, one iteration per step *)

\* if not header_data or len(header_data) < HEADER_SIZE
HeaderIncomplete(header_data) ==
    Len(header_data) = 0 \/ Len(header_data) < HEADER_SIZE

HeaderBreakLog_Warns(lg, header_data) ==
    IF Len(header_data) > 0
    THEN Append(lg, [msg |-> "Warning: truncated header", n |-> Len(header_data)])
    ELSE lg

\* What the break on an incomplete header prints: nothing
HeaderBreakLog(lg, header_data) == lg

UrlIncomplete_Never(url_data, url_len) == FALSE

\* if len(url_data) < url_len
UrlIncomplete(url_data, url_len) == Len(url_data) < url_len

NextRecordId_Stuck(id) == id

\* record_id += 1
NextRecordId(id) == id + 1

\* The file position after a record's header and URL have been read
NextPos_Rewound(p, url_data) == p

NextPos(p, url_data) == p + HEADER_SIZE + Len(url_data)

\* The loop is left: print "Successfully parsed ..." and go on with the pipeline
LeaveLoop(newpos, reason, lg) ==
    /\ pos' = newpos
    /\ stop_reason' = reason
    /\ log' = Append(lg, [msg |-> "Successfully parsed", n |-> Len(requests)])
    /\ snapshot' = heap
    /\ pc' = IF parser = "new" THEN "sort" ELSE "group_old"
    /\ UNCHANGED <<record_id, requests, heap>>

\* except Exception of ucb_trace_parser.py: print, skip url_len bytes with
\* f.read(url_len) and go on with the next record; break if the skip raises
\* too.  The read that raised has not moved the file position.
DecodeErrorOld(url_pos, url_data, url_len) ==
    \E skip_fails \in BOOLEAN :
        LET lg == Append(log, [msg |-> "Error parsing record", n |-> record_id]) IN
        IF skip_fails
        THEN LeaveLoop(url_pos, "error", lg)
        ELSE /\ pos' = url_pos + Len(Read(stream, url_pos, url_len))
             /\ log' = lg
             /\ UNCHANGED <<record_id, requests, heap, snapshot, stop_reason, pc>>

DecodeErrorNew_Continues(url_pos, url_data, url_len) ==
    DecodeErrorOld(url_pos, url_data, url_len)

\* except Exception of ucb_trace_parser_new.py: print and break
DecodeErrorNew(url_pos, url_data, url_len) ==
    LeaveLoop(url_pos, "error",
              Append(log, [msg |-> "Error parsing record", n |-> record_id]))

\* The exception handler of the parser in use
DecodeError(url_pos, url_data, url_len) ==
    IF parser = "new" THEN DecodeErrorNew(url_pos, url_data, url_len)
    ELSE DecodeErrorOld(url_pos, url_data, url_len)

\* requests.append(request); record_id += 1; progress print every 1000 records
AppendRequest(h, url_data) ==
    LET request == MakeRequest(parser, record_id, h, DecodeUtf8(url_data))
        ref == Len(heap) + 1
    IN  /\ heap' = Append(heap, request)
        /\ requests' = Append(requests, ref)
        /\ record_id' = NextRecordId(record_id)
        /\ log' = IF NextRecordId(record_id) % 1000 = 0
                  THEN Append(log, [msg |-> "Processed", n |-> NextRecordId(record_id)])
                  ELSE log
        /\ pos' = NextPos(pos, url_data)
        /\ UNCHANGED <<snapshot, stop_reason, pc>>

\* One iteration of while True; read_fails: f.read(url_len) raises
DecodeStep ==
    /\ pc = "decode"
    /\ \E header_data \in {Read(stream, pos, HEADER_SIZE)} :
       IF HeaderIncomplete(header_data)
       THEN LeaveLoop(pos + Len(header_data),
                      IF Len(header_data) = 0 THEN "eof" ELSE "short_header",
                      HeaderBreakLog(log, header_data))
       ELSE \E h \in {UnpackHeader(header_data)} :
            \E url_data \in {Read(stream, pos + HEADER_SIZE, h.url_len)} :
            \E read_fails \in BOOLEAN :
                LET url_pos == pos + HEADER_SIZE IN
                IF read_fails
                THEN DecodeError(url_pos, url_data, h.url_len)
                ELSE IF UrlIncomplete(url_data, h.url_len)
                THEN LeaveLoop(url_pos + Len(url_data), "short_url",
                               Append(log, [msg |-> "Warning: Unexpected EOF reading URL",
                                            n |-> record_id]))
                ELSE AppendRequest(h, url_data)
    /\ UNCHANGED <<parser, stream, records, tail, pages, current_page,
                   current_client_ip, gi, valid_pages, vi, output, result>>

---------------------------------------------------------------------------
(* requests.sort(key=lambda x: x['client_ip']) *)

Front(s) == SubSeq(s, 1, Len(s) - 1)
Last(s) == s[Len(s)]

\* Insert reference r into the sorted list, behind every element whose key is
\* not greater (list.sort is stable: equal keys keep their order)
RECURSIVE InsertByClientIp(_, _, _)
InsertByClientIp(sorted, r, h) ==
    IF sorted = <<>> THEN <<r>>
    ELSE IF h[Last(sorted)].client_ip <= h[r].client_ip THEN Append(sorted, r)
    ELSE Append(InsertByClientIp(Front(sorted), r, h), Last(sorted))

RECURSIVE InsertBeforeEqual(_, _, _)
InsertBeforeEqual(sorted, r, h) ==
    IF sorted = <<>> THEN <<r>>
    ELSE IF h[Last(sorted)].client_ip < h[r].client_ip THEN Append(sorted, r)
    ELSE Append(InsertBeforeEqual(Front(sorted), r, h), Last(sorted))

RECURSIVE SortByClientIp_Unstable(_, _)
SortByClientIp_Unstable(s, h) ==
    IF s = <<>> THEN <<>>
    ELSE InsertBeforeEqual(SortByClientIp_Unstable(Front(s), h), Last(s), h)

SortByClientIp_Skipped(s, h) == s

RECURSIVE SortByClientIp(_, _)
SortByClientIp(s, h) ==
    IF s = <<>> THEN <<>>
    ELSE InsertByClientIp(SortByClientIp(Front(s), h), Last(s), h)

\* STEP 1 of parse_binary_trace, and entry of group_requests_into_pages_sst_method
SortStep ==
    /\ pc = "sort"
    /\ log' = Append(log, [msg |-> "Sorting requests by client IP address"])
    /\ requests' = SortByClientIp(requests, heap)
    /\ pages' = <<>>
    /\ current_page' = <<>>
    /\ current_client_ip' = None
    /\ gi' = 1
    /\ pc' = "group"
    /\ UNCHANGED <<parser, stream, records, tail, pos, record_id, heap, snapshot,
                   stop_reason, valid_pages, vi, output, result>>

---------------------------------------------------------------------------
(* group_requests_into_pages_sst_method *)

GroupState(pgs, cur, cip) ==
    [pages |-> pgs, current_page |-> cur, current_client_ip |-> cip]

\* if current_client_ip != req['client_ip']: save the page, switch client
SwitchClient(g, req) ==
    IF g.current_client_ip # req.client_ip
    THEN GroupState(IF g.current_page # <<>> THEN Append(g.pages, g.current_page)
                    ELSE g.pages,
                    IF g.current_page # <<>> THEN <<>> ELSE g.current_page,
                    req.client_ip)
    ELSE g

PlaceRequest_AppendsPrimary(g, ref, req) ==
    IF g.current_page # <<>>
    THEN GroupState(g.pages, Append(g.current_page, ref), g.current_client_ip)
    ELSE GroupState(g.pages, <<ref>>, g.current_client_ip)

\* if req['is_primary']: ... else: ...
PlaceRequest(g, ref, req) ==
    IF req.is_primary
    THEN GroupState(IF g.current_page # <<>> THEN Append(g.pages, g.current_page)
                    ELSE g.pages,
                    <<ref>>,
                    g.current_client_ip)
    ELSE IF g.current_page # <<>>
    THEN GroupState(g.pages, Append(g.current_page, ref), g.current_client_ip)
    ELSE GroupState(g.pages, <<ref>>, g.current_client_ip)

GroupIter_NoClientSwitch(g, ref, req) == PlaceRequest(g, ref, req)

\* The body of for req in requests
GroupIter(g, ref, req) == PlaceRequest(SwitchClient(g, req), ref, req)

GroupStep ==
    /\ pc = "group"
    /\ gi <= Len(requests)
    /\ LET g == GroupIter(GroupState(pages, current_page, current_client_ip),
                          requests[gi], heap[requests[gi]])
       IN  /\ pages' = g.pages
           /\ current_page' = g.current_page
           /\ current_client_ip' = g.current_client_ip
    /\ gi' = gi + 1
    /\ UNCHANGED <<parser, stream, records, tail, pos, record_id, requests, heap,
                   snapshot, log, stop_reason, pc, valid_pages, vi, output, result>>

LastPage_Dropped(pgs, cur) == pgs

\* if current_page: pages.append(current_page)
LastPage(pgs, cur) == IF cur # <<>> THEN Append(pgs, cur) ELSE pgs

GroupFlush ==
    /\ pc = "group"
    /\ gi > Len(requests)
    /\ pages' = LastPage(pages, current_page)
    /\ valid_pages' = <<>>
    /\ vi' = 1
    /\ pc' = "promote"
    /\ UNCHANGED <<parser, stream, records, tail, pos, record_id, requests, heap,
                   snapshot, log, stop_reason, current_page, current_client_ip, gi,
                   output, result>>

PromoteFirst_Never(h, page) == h

PromoteFirst_WholePage(h, page) ==
    LET has_primary == \E k \in 1..Len(page) : h[page[k]].is_primary IN
    IF ~has_primary /\ Len(page) > 0
    THEN [r \in 1..Len(h) |->
            IF \E k \in 1..Len(page) : page[k] = r
            THEN [h[r] EXCEPT !.is_primary = TRUE] ELSE h[r]]
    ELSE h

\* has_primary = any(...); if not has_primary: page[0]['is_primary'] = True
PromoteFirst(h, page) ==
    LET has_primary == \E k \in 1..Len(page) : h[page[k]].is_primary IN
    IF ~has_primary /\ Len(page) > 0
    THEN [h EXCEPT ![page[1]].is_primary = TRUE]
    ELSE h

\* The body of for page in pages
PromoteStep ==
    /\ pc = "promote"
    /\ vi <= Len(pages)
    /\ LET page == pages[vi] IN
       IF Len(page) > 0
       THEN /\ heap' = PromoteFirst(heap, page)
            /\ valid_pages' = Append(valid_pages, page)
       ELSE UNCHANGED <<heap, valid_pages>>
    /\ vi' = vi + 1
    /\ UNCHANGED <<parser, stream, records, tail, pos, record_id, requests, snapshot,
                   log, stop_reason, pc, pages, current_page, current_client_ip, gi,
                   output, result>>

\* print(f"Grouped ..."); return valid_pages
GroupReturn ==
    /\ pc = "promote"
    /\ vi > Len(pages)
    /\ log' = Append(log, [msg |-> "Grouped", n |-> Len(requests),
                           clients |-> Cardinality({heap[requests[k]].client_ip :
                                                    k \in 1..Len(requests)}),
                           pages |-> Len(valid_pages)])
    /\ pc' = "write"
    /\ UNCHANGED <<parser, stream, records, tail, pos, record_id, requests, heap,
                   snapshot, stop_reason, pages, current_page, current_client_ip, gi,
                   valid_pages, vi, output, result>>

---------------------------------------------------------------------------
(* group_requests_into_pages of ucb_trace_parser.py *)

\* The loop over requests[i..], carried state: pages, current_page, last_primary_time
RECURSIVE GroupOldFrom(_, _, _, _, _, _)
GroupOldFrom(reqs, i, h, pgs, cur, last_primary_time) ==
    IF i > Len(reqs) THEN LastPage(pgs, cur)
    ELSE LET req == h[reqs[i]] IN
         IF req.is_primary \/ cur = <<>>
            \/ req.client_req_time - last_primary_time > PAGE_TIMEOUT
         THEN GroupOldFrom(reqs, i + 1, h,
                           IF cur # <<>> THEN Append(pgs, cur) ELSE pgs,
                           <<reqs[i]>>,
                           IF req.is_primary THEN req.client_req_time
                           ELSE last_primary_time)
         ELSE GroupOldFrom(reqs, i + 1, h, pgs, Append(cur, reqs[i]), last_primary_time)

group_requests_into_pages(reqs, h) == GroupOldFrom(reqs, 1, h, <<>>, <<>>, 0)

GroupOld ==
    /\ pc = "group_old"
    /\ pages' = group_requests_into_pages(requests, heap)
    /\ log' = Append(log, [msg |-> "Grouped", n |-> Len(requests),
                           pages |-> Len(group_requests_into_pages(requests, heap))])
    /\ pc' = "write"
    /\ UNCHANGED <<parser, stream, records, tail, pos, record_id, requests, heap,
                   snapshot, stop_reason, current_page, current_client_ip, gi,
                   valid_pages, vi, output, result>>

---------------------------------------------------------------------------
(* write_pages_to_file, and the return of parse_binary_trace *)

DataLine(req) ==
    [ kind |-> "data", url |-> req.url, size |-> req.size,
      is_primary |-> IF req.is_primary THEN 1 ELSE 0,
      client_req_time |-> req.client_req_time, response_time |-> req.response_time ]

PageLine_ZeroBased(p, i, page) ==
    IF p = "new" THEN [kind |-> "page", n |-> i - 1, k |-> Len(page)]
    ELSE [kind |-> "page", n |-> i - 1]

\* "# --- Page i (k requests) ---" in the new parser, "# --- Page i ---" in the old
PageLine(p, i, page) ==
    IF p = "new" THEN [kind |-> "page", n |-> i, k |-> Len(page)]
    ELSE [kind |-> "page", n |-> i]

\* The lines written for pages[i..], i counted from 1 (enumerate's i + 1)
RECURSIVE PageLines(_, _, _, _)
PageLines(p, pgs, i, h) ==
    IF i > Len(pgs) THEN <<>>
    ELSE <<PageLine(p, i, pgs[i])>>
         \o [k \in 1..Len(pgs[i]) |-> DataLine(h[pgs[i][k]])]
         \o <<[kind |-> "end", n |-> i]>>
         \o PageLines(p, pgs, i + 1, h)

write_pages_to_file(p, pgs, h) == <<[kind |-> "columns"]>> \o PageLines(p, pgs, 1, h)

\* write_pages_to_file(pages, output_file) and return True; when the output
\* file cannot be opened: except Exception, print, return False
WriteStep ==
    /\ pc = "write"
    /\ LET pgs == IF parser = "new" THEN valid_pages ELSE pages IN
       \E sink_ok \in BOOLEAN :
           IF sink_ok
           THEN /\ output' = write_pages_to_file(parser, pgs, heap)
                /\ log' = Append(log, [msg |-> "Successfully wrote", n |-> Len(pgs)])
                /\ result' = <<TRUE>>
           ELSE /\ output' = output
                /\ log' = Append(log, [msg |-> "Error processing trace file"])
                /\ result' = <<FALSE>>
    /\ pc' = "done"
    /\ UNCHANGED <<parser, stream, records, tail, pos, record_id, requests, heap,
                   snapshot, stop_reason, pages, current_page, current_client_ip, gi,
                   valid_pages, vi>>

---------------------------------------------------------------------------
(* The specifications *)

Next ==
    \/ Open
    \/ DecodeStep
    \/ SortStep
    \/ GroupStep
    \/ GroupFlush
    \/ PromoteStep
    \/ GroupReturn
    \/ GroupOld
    \/ WriteStep

\* parse_binary_trace of either parser on a trace file
Spec == Init /\ [][Next]_vars

\* The pipeline is one thread that runs until it returns
FairSpec == Spec /\ WF_vars(Next)

\* group_requests_into_pages_sst_method on any list of requests
GroupClientIps == {1, 2, 3}

GroupRequest(id, client_ip, primary) ==
    [ id |-> id, url |-> <<>>, client_ip |-> client_ip, client_req_time |-> 0,
      server_first_time |-> 0, server_last_time |-> 0, resp_header_len |-> 0,
      resp_data_len |-> 0, size |-> 0, is_primary |-> primary, response_time |-> 1 ]

GroupInit ==
    /\ parser = "new"
    /\ stream = <<>>
    /\ records = <<>>
    /\ tail = "clean"
    /\ pos = 0
    /\ record_id = 0
    /\ \E input \in SeqsUpTo(GroupClientIps \X BOOLEAN, MaxGroupInput) :
        /\ heap = [k \in 1..Len(input) |-> GroupRequest(k - 1, input[k][1], input[k][2])]
        /\ requests = [k \in 1..Len(input) |-> k]
    /\ snapshot = heap
    /\ log = <<>>
    /\ stop_reason = "none"
    /\ pc = "group"
    /\ pages = <<>>
    /\ current_page = <<>>
    /\ current_client_ip = None
    /\ gi = 1
    /\ valid_pages = <<>>
    /\ vi = 1
    /\ output = <<>>
    /\ result = <<>>

GroupNext ==
    \/ GroupStep
    \/ GroupFlush
    \/ PromoteStep
    \/ GroupReturn

SpecGroup == GroupInit /\ [][GroupNext]_vars

---------------------------------------------------------------------------
(* is_primary_request as the decoder of ucb_trace_parser_new.py calls it: a  *)
(* trace file of one record whose URL is put together from pieces           *)

\* ".", "c", "C", "s", "/", "a", "style", ".c", ".C", ".htm", ".html", ".HTM",
\* ".gif", ".GIF", ".jpg", ".jpeg", ".png", ".css", ".CSS", ".js", ".ico", ".bmp"
UrlTokens ==
    { <<46>>, <<99>>, <<67>>, <<115>>, <<47>>, <<97>>,
      <<115, 116, 121, 108, 101>>,
      <<46, 99>>, <<46, 67>>,
      <<46, 104, 116, 109>>, <<46, 104, 116, 109, 108>>, <<46, 72, 84, 77>>,
      <<46, 103, 105, 102>>, <<46, 71, 73, 70>>,
      <<46, 106, 112, 103>>, <<46, 106, 112, 101, 103>>, <<46, 112, 110, 103>>,
      <<46, 99, 115, 115>>, <<46, 67, 83, 83>>,
      <<46, 106, 115>>, <<46, 105, 99, 111>>, <<46, 98, 109, 112>> }

Urls == {Concat(ts) : ts \in SeqsUpTo(UrlTokens, MaxUrlTokens)}

\* parse_binary_trace of ucb_trace_parser_new.py has opened a file of one record
ClassifyInit ==
    /\ parser = "new"
    /\ \E u \in Urls : records = <<[TailRecord EXCEPT !.url = u]>>
    /\ tail = "clean"
    /\ stream = EncodeAll(records)
    /\ pos = 0
    /\ record_id = 0
    /\ requests = <<>>
    /\ heap = <<>>
    /\ snapshot = <<>>
    /\ log = <<>>
    /\ stop_reason = "none"
    /\ pc = "decode"
    /\ pages = <<>>
    /\ current_page = <<>>
    /\ current_client_ip = None
    /\ gi = 1
    /\ valid_pages = <<>>
    /\ vi = 1
    /\ output = <<>>
    /\ result = <<>>

\* The decode loop alone: the flag is_primary_request gave is what heap holds
ClassifyNext == DecodeStep

SpecClassify == ClassifyInit /\ [][ClassifyNext]_vars

---------------------------------------------------------------------------
(* Properties of group_requests_into_pages_sst_method *)

\* The grouper has returned valid_pages
GroupReturned == parser = "new" /\ pc \in {"write", "done"}

\* The page that holds reference r, and the place of r in it
PageOf(r) ==
    CHOOSE i \in 1..Len(valid_pages) : \E j \in 1..Len(valid_pages[i]) : valid_pages[i][j] = r
PlaceOf(r) ==
    CHOOSE j \in 1..Len(valid_pages[PageOf(r)]) : valid_pages[PageOf(r)][j] = r

\* C1: every page the grouper returns is non-empty and its first request has
\* is_primary = true on return, orphan pages (started by a secondary
\* request) included.
C1_PagesStartWithPrimary ==
    GroupReturned =>
        \A i \in 1..Len(valid_pages) :
            /\ Len(valid_pages[i]) > 0
            /\ heap[valid_pages[i][1]].is_primary = TRUE

\* An orphan page of two requests has been returned: its first request was
\* secondary on entry
C1_Witness ==
    /\ GroupReturned
    /\ \E i \in 1..Len(valid_pages) :
        /\ Len(valid_pages[i]) >= 2
        /\ ~snapshot[valid_pages[i][1]].is_primary
        /\ heap[valid_pages[i][1]].is_primary

\* C2: for consecutive input requests a, b: b is in a's page, right behind a,
\* if and only if b has a's client_ip and was secondary on entry; otherwise b
\* is the first request of the next page.
C2_SamePageIffSameClientSecondary ==
    GroupReturned =>
        \A k \in 1..(Len(requests) - 1) :
            LET a == requests[k]
                b == requests[k + 1]
                joins == /\ snapshot[b].client_ip = snapshot[a].client_ip
                         /\ ~snapshot[b].is_primary
            IN  /\ joins <=> PageOf(b) = PageOf(a)
                /\ joins => PlaceOf(b) = PlaceOf(a) + 1
                /\ ~joins => PageOf(b) = PageOf(a) + 1 /\ PlaceOf(b) = 1

\* A secondary request that is the first of a new client has started an
\* orphan page behind the previous client's page
C2_Witness ==
    /\ GroupReturned
    /\ \E k \in 1..(Len(requests) - 1) :
        /\ snapshot[requests[k + 1]].client_ip # snapshot[requests[k]].client_ip
        /\ ~snapshot[requests[k + 1]].is_primary
        /\ PageOf(requests[k + 1]) = PageOf(requests[k]) + 1
        /\ PlaceOf(requests[k + 1]) = 1

\* C3: the returned pages partition the input: every request is in exactly
\* one page at exactly one place, and the pages concatenated are the input in
\* its order (no page for an empty input).
C3_PagesPartitionInput ==
    GroupReturned =>
        /\ Concat(valid_pages) = requests
        /\ SumLen(valid_pages) = Len(requests)
        /\ \A r \in 1..Len(heap) :
            Cardinality({ij \in (1..Len(valid_pages)) \X (1..Len(requests)) :
                            /\ ij[2] <= Len(valid_pages[ij[1]])
                            /\ valid_pages[ij[1]][ij[2]] = r}) = 1
        /\ requests = <<>> => valid_pages = <<>>

\* Three or more requests have been returned in two or more pages
C3_Witness ==
    /\ GroupReturned
    /\ Len(requests) >= 3
    /\ Len(valid_pages) >= 2
    /\ \E i \in 1..Len(valid_pages) : Len(valid_pages[i]) >= 2

---------------------------------------------------------------------------
(* Properties of the pipeline of ucb_trace_parser_new.py *)

\* requests.sort has run
Sorted == parser = "new" /\ pc \in {"group", "promote", "write", "done"}

\* C4: the sort step orders the decoded requests by non-decreasing client_ip
\* and is stable: requests of one client keep their decode order (ascending
\* id); it hands every decoded request to the grouper, once.
C4_SortStableByClientIp ==
    Sorted =>
        /\ Len(requests) = Len(heap)
        /\ {requests[k] : k \in 1..Len(requests)} = 1..Len(heap)
        /\ \A i, j \in 1..Len(requests) :
            i < j =>
                /\ heap[requests[i]].client_ip <= heap[requests[j]].client_ip
                /\ heap[requests[i]].client_ip = heap[requests[j]].client_ip
                       => heap[requests[i]].id < heap[requests[j]].id

\* The sort has moved a request in front of two requests of one other client,
\* which were decoded before it and are still in their decode order
C4_Witness ==
    /\ Sorted
    /\ Len(requests) >= 3
    /\ heap[requests[1]].id > heap[requests[2]].id
    /\ heap[requests[2]].client_ip = heap[requests[3]].client_ip
    /\ heap[requests[2]].id < heap[requests[3]].id

\* The client of a page: the client_ip of its first request
PageClient(page) == heap[page[1]].client_ip

\* C5: in the output of decode, sort, group every page holds requests of one
\* client_ip only, the pages of one client_ip are consecutive, and client_ip
\* does not decrease from page to page.
C5_PagesClusteredByClient ==
    GroupReturned =>
        /\ \A i \in 1..Len(valid_pages) : \A k \in 1..Len(valid_pages[i]) :
            heap[valid_pages[i][k]].client_ip = PageClient(valid_pages[i])
        /\ \A i, j \in 1..Len(valid_pages) :
            i < j => PageClient(valid_pages[i]) <= PageClient(valid_pages[j])
        /\ \A i, j, k \in 1..Len(valid_pages) :
            i < j /\ j < k /\ PageClient(valid_pages[i]) = PageClient(valid_pages[k])
                => PageClient(valid_pages[j]) = PageClient(valid_pages[i])

\* Pages of two clients have been returned, a client's two pages side by
\* side, and a request decoded later stands before one decoded earlier: the
\* order of the trace across clients is not kept
C5_Witness ==
    /\ GroupReturned
    /\ \E i \in 1..(Len(valid_pages) - 2) :
        /\ PageClient(valid_pages[i]) < PageClient(valid_pages[i + 1])
        /\ PageClient(valid_pages[i + 1]) = PageClient(valid_pages[i + 2])
        /\ heap[valid_pages[i][1]].id > heap[valid_pages[i + 1][1]].id

---------------------------------------------------------------------------
(* Properties of the decode loop *)

\* The decode loop has been left
DecodeLeft == pc \notin {"call", "decode"}

\* No exception was caught in the decode loop
NoDecodeError == \A k \in 1..Len(log) : log[k].msg # "Error parsing record"

DecodeErrors == {k \in 1..Len(log) : log[k].msg = "Error parsing record"}

\* The output file was written
SinkOk == pc = "done" /\ log[Len(log)].msg = "Successfully wrote"

\* The k-th request dict is the decode of file record r
DecodedFrom(k, r) ==
    /\ snapshot[k].id = k - 1
    /\ snapshot[k].url = r.url
    /\ snapshot[k].client_req_time = r.client_req_sec
    /\ snapshot[k].server_first_time = r.server_first_sec
    /\ snapshot[k].server_last_time = r.server_last_sec
    /\ snapshot[k].resp_header_len = r.resp_header_len
    /\ snapshot[k].resp_data_len = r.resp_data_len
    /\ snapshot[k].size = r.resp_header_len + r.resp_data_len
    /\ parser = "new" => snapshot[k].client_ip = r.client_ip

\* Every well-formed record of the file was decoded, and nothing else
AllRecordsDecoded ==
    /\ Len(requests) = Len(records)
    /\ Len(heap) = Len(records)
    /\ record_id = Len(records)
    /\ \A k \in 1..Len(records) : DecodedFrom(k, records[k])

\* The decode loop has just been left (requests is still in decode order)
LoopLeft == pc \in {"sort", "group_old"}

\* C6: from a file of exactly N well-formed records the decode loop produces
\* exactly N requests, in record order, with ids 0 .. N-1.
C6_DecodesEveryRecord ==
    LoopLeft /\ tail = "clean" /\ NoDecodeError =>
        /\ AllRecordsDecoded
        /\ \A k \in 1..Len(requests) : requests[k] = k /\ heap[requests[k]].id = k - 1
        /\ stop_reason = "eof"

\* A file of three records has been decoded
C6_Witness ==
    /\ LoopLeft /\ tail = "clean" /\ NoDecodeError
    /\ Len(records) >= 3
    /\ Len(requests) = Len(records)

UrlTails == {"url_short", "url_missing"}

DataLines(lines) == {k \in 1..Len(lines) : lines[k].kind = "data"}

\* C7: when the last record's header declares more URL bytes than remain,
\* decoding stops at it with a warning, no request is made for it, the full
\* records before it are all kept as decoded, and the pipeline goes on to
\* sort, group and write them and returns True.
C7_TruncatedUrlKeepsFullRecords ==
    tail \in UrlTails /\ DecodeLeft /\ NoDecodeError =>
        /\ stop_reason = "short_url"
        /\ \E k \in 1..Len(log) :
            log[k] = [msg |-> "Warning: Unexpected EOF reading URL", n |-> Len(records)]
        /\ AllRecordsDecoded
        /\ parser = "new" /\ pc \in {"write", "done"}
               => SumLen(valid_pages) = Len(records)
        /\ SinkOk => /\ result = <<TRUE>>
                     /\ Cardinality(DataLines(output)) = Len(records)

\* A file of two full records and a truncated third has been processed and
\* written
C7_Witness ==
    /\ tail = "url_short" /\ NoDecodeError /\ SinkOk
    /\ stop_reason = "short_url"
    /\ Len(records) >= 2
    /\ Len(requests) = Len(records)
    /\ result = <<TRUE>>

HeaderTails == {"header_1", "header_59"}

\* What a run prints that decodes n requests, ends the loop without a warning
\* and writes its pages
CleanLog ==
    IF parser = "new"
    THEN << [msg |-> "Successfully parsed", n |-> Len(requests)],
            [msg |-> "Sorting requests by client IP address"],
            [msg |-> "Grouped", n |-> Len(requests),
             clients |-> Cardinality({heap[requests[k]].client_ip : k \in 1..Len(requests)}),
             pages |-> Len(valid_pages)],
            [msg |-> "Successfully wrote", n |-> Len(valid_pages)] >>
    ELSE << [msg |-> "Successfully parsed", n |-> Len(requests)],
            [msg |-> "Grouped", n |-> Len(requests), pages |-> Len(pages)],
            [msg |-> "Successfully wrote", n |-> Len(pages)] >>

\* What the caller of a finished run can see is what a run on the same
\* records with a clean end of file shows: the same return value, the same
\* printed lines, the same output file
LooksLikeCleanRun ==
    /\ result = <<TRUE>>
    /\ log = CleanLog
    /\ output = write_pages_to_file(parser, IF parser = "new" THEN valid_pages ELSE pages,
                                    heap)

\* C8 (as amended): when 1 to 59 bytes remain where a header is expected the
\* decoder stops and everything decoded so far goes on through the pipeline,
\* not as an error, and with nothing that tells the run from one that met a
\* clean end of stream: return value, printed lines and output are those of
\* the clean run on the same records.
C8_ShortHeaderLooksLikeCleanEnd ==
    /\ tail \in HeaderTails /\ DecodeLeft /\ NoDecodeError
           => stop_reason = "short_header" /\ AllRecordsDecoded
    /\ tail = "clean" /\ DecodeLeft /\ NoDecodeError
           => stop_reason = "eof" /\ AllRecordsDecoded
    /\ tail \in HeaderTails \cup {"clean"} /\ NoDecodeError /\ SinkOk
           => LooksLikeCleanRun

\* A run that stopped at a 59-byte header behind two records has returned
C8_Witness ==
    /\ tail = "header_59" /\ NoDecodeError /\ SinkOk
    /\ stop_reason = "short_header"
    /\ Len(requests) >= 2
    /\ pos = Len(stream)

\* C8 as claimed: a run that stopped at a short header can be told from a
\* run that met a clean end of stream.
C8_ShortHeaderDistinguishable ==
    tail \in HeaderTails /\ NoDecodeError /\ SinkOk => ~LooksLikeCleanRun

---------------------------------------------------------------------------
(* Termination of the decode loop *)

\* The iteration read one complete record, 60 header bytes and the url_len
\* URL bytes its header declares, and appended one request
ConsumesRecord ==
    /\ Len(stream) - pos >= HEADER_SIZE
    /\ pos' = pos + HEADER_SIZE + UnpackHeader(Read(stream, pos, HEADER_SIZE)).url_len
    /\ pos' <= Len(stream)
    /\ Len(requests') = Len(requests) + 1
    /\ pc' = "decode"

\* The iteration left the loop
StopsLoop ==
    /\ pc' # "decode"
    /\ stop_reason' \in {"eof", "short_header", "short_url", "error"}
    /\ requests' = requests

\* The iteration of ucb_trace_parser.py caught a decode error, read past the
\* header and at most url_len further bytes, appended nothing and goes on
SkipsRecord ==
    /\ parser = "old"
    /\ Len(log') = Len(log) + 1
    /\ log'[Len(log')].msg = "Error parsing record"
    /\ requests' = requests
    /\ pos' >= pos + HEADER_SIZE
    /\ pos' <= pos + HEADER_SIZE + UnpackHeader(Read(stream, pos, HEADER_SIZE)).url_len
    /\ pc' = "decode"

\* C10 (as amended): the decode loop ends on every finite input.  Each
\* iteration consumes one complete record and appends one request, or stops
\* the loop (zero bytes, a short header, a short URL, or, in
\* ucb_trace_parser_new.py, a decode error); in ucb_trace_parser.py an
\* iteration that catches a decode error consumes the header and up to
\* url_len URL bytes, appends nothing and goes on.  No iteration goes on
\* without consuming input.
C10_DecodeLoopTerminates ==
    /\ [][pc = "decode" =>
            /\ ConsumesRecord \/ StopsLoop \/ SkipsRecord
            /\ pc' = "decode" => pos' > pos]_vars
    /\ <>DecodeLeft
    /\ <>(pc = "done")

\* The loop has consumed a file of three records to its end and the run is
\* over
C10_Witness ==
    /\ pc = "done"
    /\ Len(records) >= 3
    /\ Len(requests) = Len(records)
    /\ pos = Len(stream)
    /\ stop_reason = "eof"

\* C10 as claimed: every iteration consumes one complete record and appends
\* one request, or stops the loop.
C10_EveryIterationAppendsOrStops ==
    [][pc = "decode" => ConsumesRecord \/ StopsLoop]_vars

---------------------------------------------------------------------------
(* Properties of is_primary_request *)

\* No character of u is an upper-case letter
IsLowerCase(u) == \A i \in 1..Len(u) : ~(u[i] >= 65 /\ u[i] <= 90)

\* ".gif", ".jpg", ".jpeg", ".png", ".css", ".js", ".ico", ".bmp", and ".c"
SecondaryMarkers ==
    { <<46, 103, 105, 102>>, <<46, 106, 112, 103>>, <<46, 106, 112, 101, 103>>,
      <<46, 112, 110, 103>>, <<46, 99, 115, 115>>, <<46, 106, 115>>,
      <<46, 105, 99, 111>>, <<46, 98, 109, 112>>, <<46, 99>> }

\* C11: for a URL that is entirely lower-case, the request decoded from it by
\* ucb_trace_parser_new.py is secondary exactly when the URL contains one of
\* .gif .jpg .jpeg .png .css .js .ico .bmp or the substring .c, and primary
\* otherwise, whatever else (.html, .htm, a last segment without a dot) it has.
C11_LowerCaseSecondaryIffMarker ==
    parser = "new" =>
        \A k \in 1..Len(heap) :
            IsLowerCase(heap[k].url) =>
                (heap[k].is_primary = FALSE
                    <=> \E m \in SecondaryMarkers : Contains(heap[k].url, m))

\* A lower-case URL with .c and .htm in it, and none of the eight extensions,
\* has been decoded as secondary
C11_Witness ==
    /\ parser = "new"
    /\ \E k \in 1..Len(heap) :
        /\ IsLowerCase(heap[k].url)
        /\ Contains(heap[k].url, <<46, 99>>)
        /\ Contains(heap[k].url, <<46, 104, 116, 109>>)
        /\ \A m \in SecondaryMarkers \ {<<46, 99>>} : ~Contains(heap[k].url, m)
        /\ heap[k].is_primary = FALSE

\* C12: is_primary_request is case-insensitive on the whole URL: the flag of
\* the request decoded from a URL u is the classification of the lower-cased
\* u, for every rule, the .c rule included.
C12_CaseInsensitive ==
    parser = "new" =>
        \A k \in 1..Len(heap) :
            heap[k].is_primary = is_primary_request(Lower(heap[k].url))

\* "style.css"
StyleCss == <<115, 116, 121, 108, 101, 46, 99, 115, 115>>

\* C13: a URL whose only extension marker is .css, such as "style.css", is
\* classified secondary: the request decoded from it has is_primary = false.
C13_StyleCssSecondary ==
    parser = "new" =>
        \A k \in 1..Len(heap) :
            heap[k].url = StyleCss => heap[k].is_primary = FALSE

\* The record with URL "style.css" has been decoded
C13_Witness ==
    /\ parser = "new"
    /\ \E k \in 1..Len(heap) : heap[k].url = StyleCss /\ heap[k].id = 0

\* C13 as stated: the request decoded from "style.css" has is_primary = true.
C13_StyleCssPrimary ==
    parser = "new" =>
        \A k \in 1..Len(heap) :
            heap[k].url = StyleCss => heap[k].is_primary = TRUE

---------------------------------------------------------------------------
(* Properties of the decoded fields *)

\* C14: every decoded request has response_time = max(1, server last-byte
\* time - server first-byte time) of its record: 1 when the two are equal, 1
\* when the last-byte time is the earlier one, the exact difference otherwise,
\* and never below 1.
C14_ResponseTimeFloor ==
    \A k \in 1..Len(heap) :
        LET first == heap[k].server_first_time
            last == heap[k].server_last_time
        IN  /\ heap[k].response_time >= 1
            /\ last = first => heap[k].response_time = 1
            /\ last < first => heap[k].response_time = 1
            /\ last > first => heap[k].response_time = last - first
            /\ NoDecodeError /\ k <= Len(records) =>
                    /\ first = records[k].server_first_sec
                    /\ last = records[k].server_last_sec

\* Three records have been decoded: equal times, last-byte time one second
\* before first-byte time, last-byte time three seconds after it
C14_Witness ==
    /\ NoDecodeError
    /\ \E a, b, c \in 1..Len(heap) :
        /\ records[a].server_last_sec = records[a].server_first_sec
        /\ heap[a].response_time = 1
        /\ records[b].server_last_sec = records[b].server_first_sec - 1
        /\ heap[b].response_time = 1
        /\ records[c].server_last_sec = records[c].server_first_sec + 3
        /\ heap[c].response_time = 3

---------------------------------------------------------------------------
(* What the pipeline changes in a request after it is decoded *)

\* The step promotes request r: it is the first request of the page the
\* post-processing pass is at, no request of that page is primary, and only
\* its is_primary changes, from false to true
Promotes(r) ==
    /\ pc = "promote" /\ vi <= Len(pages)
    /\ Len(pages[vi]) > 0 /\ pages[vi][1] = r
    /\ \A j \in 1..Len(pages[vi]) : ~heap[pages[vi][j]].is_primary
    /\ heap'[r] = [heap[r] EXCEPT !.is_primary = TRUE]

\* C15: once a request is decoded, a step of the pipeline (sort, group, write)
\* either leaves all its fields as they are or promotes it; a request whose
\* is_primary differs from the decoded value is never changed again.
C15_OnlyPromotionMutates ==
    [][ /\ Len(heap') >= Len(heap)
        /\ \A r \in 1..Len(heap) :
            /\ heap'[r] = heap[r] \/ Promotes(r)
            /\ (DecodeLeft /\ heap[r].is_primary # snapshot[r].is_primary)
                    => heap'[r] = heap[r] ]_vars

\* The run has returned with a page of two requests whose first one was
\* promoted and whose second one is as decoded
C15_Witness ==
    /\ pc = "done" /\ parser = "new"
    /\ \E i \in 1..Len(valid_pages) :
        /\ Len(valid_pages[i]) >= 2
        /\ ~snapshot[valid_pages[i][1]].is_primary
        /\ heap[valid_pages[i][1]].is_primary
        /\ heap[valid_pages[i][2]] = snapshot[valid_pages[i][2]]

---------------------------------------------------------------------------
(* Properties of write_pages_to_file *)

\* ucb_trace_parser_new.py has written output_file
Written == parser = "new" /\ SinkOk

PageLineIndexes == {p \in 1..Len(output) : output[p].kind = "page"}

\* The requests of the pages handed to the writer, in page order
WrittenRequests == Concat(valid_pages)

\* C16: the output is the column-header line once, then for the i-th page
\* (i = 1, 2, ... without gaps) a line "Page i (k requests)", k data lines for
\* the page's requests in order, and "End of Page i"; there are as many data
\* lines as grouped requests.
C16_OutputFormat ==
    Written =>
        /\ Len(output) >= 1 /\ output[1].kind = "columns"
        /\ \A q \in 2..Len(output) : output[q].kind \in {"page", "data", "end"}
        /\ Len(output) >= 2 => output[2].kind = "page" /\ output[2].n = 1
        /\ Len(output) >= 2 => output[Len(output)].kind = "end"
        /\ Cardinality(PageLineIndexes) = Len(valid_pages)
        /\ \A p \in PageLineIndexes :
            LET i == output[p].n
                k == output[p].k
            IN  /\ i \in 1..Len(valid_pages)
                /\ k = Len(valid_pages[i])
                /\ p + k + 1 <= Len(output)
                /\ \A j \in 1..k :
                    LET req == heap[valid_pages[i][j]] IN
                    /\ output[p + j].kind = "data"
                    /\ output[p + j].url = req.url
                    /\ output[p + j].size = req.size
                    /\ output[p + j].is_primary = (IF req.is_primary THEN 1 ELSE 0)
                    /\ output[p + j].client_req_time = req.client_req_time
                    /\ output[p + j].response_time = req.response_time
                /\ output[p + k + 1].kind = "end" /\ output[p + k + 1].n = i
                /\ p + k + 2 <= Len(output) =>
                    /\ output[p + k + 2].kind = "page"
                    /\ output[p + k + 2].n = i + 1
        /\ Cardinality(DataLines(output)) = Len(WrittenRequests)
        /\ Cardinality(DataLines(output)) = Len(requests)

\* Two pages have been written, the first with two requests
C16_Witness ==
    /\ Written
    /\ Len(valid_pages) >= 2
    /\ Len(valid_pages[1]) = 2
    /\ output[2] = [kind |-> "page", n |-> 1, k |-> 2]
    /\ output[5] = [kind |-> "end", n |-> 1]
    /\ output[6].kind = "page" /\ output[6].n = 2

---------------------------------------------------------------------------
(* The primary request of a page *)

\* The places of page that hold a request with is_primary = true
PrimaryPlaces(page) == {j \in 1..Len(page) : heap[page[j]].is_primary}

\* C17: when the grouper has returned, every page holds exactly one request
\* with is_primary = true, at index 0; every request behind it is secondary.
C17_ExactlyOnePrimaryAtHead ==
    GroupReturned =>
        \A i \in 1..Len(valid_pages) : PrimaryPlaces(valid_pages[i]) = {1}

\* Two pages have been returned: one that a primary request started and two
\* secondary requests joined, and an orphan page whose first request was
\* promoted
C17_Witness ==
    /\ GroupReturned
    /\ \E i, j \in 1..Len(valid_pages) :
        /\ Len(valid_pages[i]) = 3
        /\ snapshot[valid_pages[i][1]].is_primary
        /\ ~snapshot[valid_pages[j][1]].is_primary
        /\ PrimaryPlaces(valid_pages[j]) = {1}


=============================================================================
